---- MODULE Spec2Model ----
(***************************************************************************)
(* The multi-task retinal inference engine of backend/oculomics/inference. *)
(* OcularInferenceAPI: the lazily filled model cache, load_model,          *)
(* preload_all_models, predict_and_explain and run_full_profile, run by    *)
(* the request threads of the web server against a checkpoint directory,   *)
(* image files and the heatmap directory.                                  *)
(* With it its callers: get_ocular_api, the tool analyze_retinal_scan and   *)
(* respond of the oculomics and diagnostic agents (backend/agents).         *)
(***************************************************************************)
EXTENDS Integers, Sequences, FiniteSets, TLC

VARIABLES
    models_cache,   \* self.models_cache: task name -> cached model (a dict)
    ckpt,           \* checkpoint directory: task name -> state of best_model_<task>.pth
    cam_dir,        \* Config.CAM_DIR: heatmap file name -> what the file shows
    thread,         \* per request thread: the frame of the call it is running
    api_instance,   \* inference._api_instance: None (0) or the engine get_ocular_api made
    apis_made,      \* how many OcularInferenceAPI objects were constructed so far
    LAST_TOOL_RESULTS,  \* oculomics_agent._LAST_TOOL_RESULTS: the last tool output
    tmp_files,      \* the temporary image files the agents wrote and did not remove
    request         \* per request thread: where it is in the agent's respond

\* The state of the engine, and the state of the agents that call it.
evars == <<models_cache, ckpt, cam_dir, thread>>

avars == <<api_instance, apis_made, LAST_TOOL_RESULTS, tmp_files, request>>

vars == <<evars, avars>>

----------------------------------------------------------------------------
(* Bounds *)

\* How many entries of Config.TASKS, in registry order, the model carries.
NumTasks == 2

\* The raw outputs of a head range over 0..MaxLogit where they are enumerated.
MaxLogit == 2

\* The scalars of a regression range over 0..MaxScalar thousandths where they
\* are enumerated.
MaxScalar == 25

----------------------------------------------------------------------------
(* Configuration *)

\* Config.TASKS, in the order of the dict literal.
TASKS ==
    << [name |-> "Age",                 kind |-> "regression", num_classes |-> 1],
       [name |-> "Gender",              kind |-> "binary",     num_classes |-> 2],
       [name |-> "Diabetes",            kind |-> "binary",     num_classes |-> 2],
       [name |-> "ICDR",                kind |-> "multiclass", num_classes |-> 5],
       [name |-> "Edema",               kind |-> "binary",     num_classes |-> 2],
       [name |-> "Hypertension",        kind |-> "binary",     num_classes |-> 2],
       [name |-> "Cardiovascular_Risk", kind |-> "binary",     num_classes |-> 2],
       [name |-> "AMI",                 kind |-> "binary",     num_classes |-> 2],
       [name |-> "Neuropathy",          kind |-> "binary",     num_classes |-> 2],
       [name |-> "Nephropathy",         kind |-> "binary",     num_classes |-> 2] >>

\* The registry the model iterates: the first NumTasks entries of TASKS.
Registry == SubSeq(TASKS, 1, IF NumTasks < Len(TASKS) THEN NumTasks ELSE Len(TASKS))

TaskNames == {Registry[i].name : i \in 1..Len(Registry)}

\* A task name that is no key of Config.TASKS.
UnknownTask == "Retinopathy_v2"

\* Config.TASKS.get(task_name): the registry entry, or NoTask.
NoTask == [name |-> "", kind |-> "", num_classes |-> 0]

TaskInfo(task_name) ==
    IF \E i \in 1..Len(TASKS) : TASKS[i].name = task_name
    THEN TASKS[CHOOSE i \in 1..Len(TASKS) : TASKS[i].name = task_name]
    ELSE NoTask

\* The request threads of the server (sync endpoints run in a thread pool).
Threads == {"T1", "T2"}

\* The thread that runs alone in the sequential specification.
MainThread == "T1"

\* The image files a caller may pass, by what opening them does.
Images == {"fundus.jpg", "truncated.jpg", "absent.jpg"}

\* The same, with a second readable image of the same file name in another
\* directory, for the calls that are run again.
RerunImages == {"fundus.jpg", "visit2/fundus.jpg"}

\* tempfile.NamedTemporaryFile(delete=False, suffix=".jpg"): a name of its own
\* for the request of each thread.
TmpName(th) == IF th = MainThread THEN "tmp_1.jpg" ELSE "tmp_2.jpg"

TmpNames == {TmpName(th) : th \in Threads}

ImageState(img_path) ==
    CASE img_path = "fundus.jpg"    -> "readable"
      [] img_path \in TmpNames       ->
             IF img_path \in tmp_files THEN "readable" ELSE "missing"
      [] img_path = "visit2/fundus.jpg" -> "readable"
      [] img_path = "truncated.jpg" -> "corrupt"
      [] OTHER                      -> "missing"

\* Path(img_path).stem
Stem(img_path) ==
    CASE img_path = "fundus.jpg"    -> "fundus"
      [] img_path = "tmp_1.jpg"     -> "tmp_1"
      [] img_path = "tmp_2.jpg"     -> "tmp_2"
      [] img_path = "visit2/fundus.jpg" -> "fundus"
      [] img_path = "truncated.jpg" -> "truncated"
      [] OTHER                      -> "absent"

\* What a checkpoint file can be: absent, unreadable or of the wrong shape, or
\* one of two versions of trained weights.
CkptStates == {"missing", "corrupt", "w1", "w2"}

\* A readable checkpoint that was saved from a model whose head has another
\* size than the task's (the file of another task under this name).
OtherHead == "w_other_head"

\* The output size of the classifier in the state dict of a checkpoint file.
CkptHead(task_name, state) ==
    IF state = OtherHead
    THEN TaskInfo(task_name).num_classes + 1
    ELSE TaskInfo(task_name).num_classes

\* The checkpoints of the runs that look at the head's size.
HeadCkptStates == {"w1", OtherHead}

----------------------------------------------------------------------------
(* Values *)

\* A model object: its identity among the models of its task, the backbone
\* object its head sits on, the head's size and the weights it holds.
NoModel == [id |-> 0, task |-> "", backbone |-> <<>>, num_classes |-> 0, weights |-> ""]

\* The backbone object FoundationalCVModel() constructs for the n-th model of
\* a task (line 153): every construction yields an object of its own.
NewBackbone(task_name, n) == <<"vit_base", task_name, n>>

NoExc == [cls |-> "", at |-> ""]

\* The exceptions the engine's code and its libraries raise, by Python class
\* and by the place that raised them.
UnknownTaskError  == [cls |-> "ValueError",        at |-> "registry"]
BackboneError     == [cls |-> "OSError",           at |-> "backbone"]
CkptMissingError  == [cls |-> "FileNotFoundError", at |-> "checkpoint"]
CkptLoadError     == [cls |-> "RuntimeError",      at |-> "checkpoint"]
ImageMissingError == [cls |-> "FileNotFoundError", at |-> "image"]
ImageDecodeError  == [cls |-> "UnidentifiedImageError", at |-> "image"]
CamError          == [cls |-> "RuntimeError",      at |-> "gradcam"]

NoPrediction == [kind |-> "none", value |-> 0, class |-> 0, probability |-> 0]

\* What a caller keeps of a profile: nothing yet.
NoProfile == [img_path |-> "", results |-> <<>>, log |-> <<>>, cache0 |-> <<>>]

\* The frame of an idle thread: the call's arguments and locals, what it
\* printed (log), its outcome (exc), and for the properties the cache as the
\* call found it (cache0), the number of times the call opened its image
\* (opens), the model the caller got from its last load_model (prev) and
\* the last profile it got from run_full_profile (kept), and whether the
\* time the caller allows for the call has run out (expired).
IdleFrame ==
    [ pc        |-> "idle",
      op        |-> "",
      img_path  |-> "",
      idx       |-> 0,
      task_name |-> "",
      model     |-> NoModel,
      reads     |-> 0,
      opens     |-> 0,
      preds     |-> <<>>,
      pred      |-> NoPrediction,
      target    |-> 0,
      map_path  |-> <<>>,
      results   |-> <<>>,
      log       |-> <<>>,
      exc       |-> NoExc,
      cache0    |-> <<>>,
      prev      |-> NoModel,
      kept      |-> NoProfile,
      expired   |-> FALSE ]

----------------------------------------------------------------------------
(* Inference and decoding *)

RECURSIVE Pow2(_)
Pow2(n) == IF n <= 0 THEN 1 ELSE 2 * Pow2(n - 1)

RECURSIVE SumPow2(_, _)
SumPow2(preds, i) == IF i > Len(preds) THEN 0 ELSE Pow2(preds[i]) + SumPow2(preds, i + 1)

\* model(input_tensor): the head's raw outputs, a function of the loaded weights
\* alone for a given image (eval mode, no randomness).
Forward(model) ==
    IF model.num_classes = 1
    THEN IF model.weights = "w1" THEN <<57>> ELSE <<63>>
    ELSE [i \in 1..model.num_classes |->
            IF model.weights = "w1" THEN i - 1 ELSE model.num_classes - i]

\* np.argmax(probs): the first index (from 0) of the largest output.
ArgMax(preds) ==
    (CHOOSE i \in 1..Len(preds) :
        /\ \A j \in 1..Len(preds) : preds[j] <= preds[i]
        /\ \A j \in 1..(i - 1) : preds[j] < preds[i]) - 1

\* F.softmax(preds)[cls], in percent (base 2 stands for base e).
Softmax(preds, cls) == (100 * Pow2(preds[cls + 1])) \div SumPow2(preds, 1)

\* Mutant of Decode: the predicted class is counted from one.
Decode_OneBased(task_type, preds) ==
    IF task_type = "regression"
    THEN [final_result |-> [kind |-> "scalar", value |-> preds[1], class |-> 0, probability |-> 0],
          target_class_idx |-> 0]
    ELSE LET pred_cls == ArgMax(preds) + 1
         IN [final_result |-> [kind |-> "class", value |-> 0, class |-> pred_cls,
                               probability |-> Softmax(preds, pred_cls - 1)],
             target_class_idx |-> pred_cls]

\* Lines 196-207: final_result and target_class_idx from the raw outputs.
Decode(task_type, preds) ==
    IF task_type = "regression"
    THEN [final_result |-> [kind |-> "scalar", value |-> preds[1], class |-> 0, probability |-> 0],
          target_class_idx |-> 0]
    ELSE LET pred_cls == ArgMax(preds)
         IN [final_result |-> [kind |-> "class", value |-> 0, class |-> pred_cls,
                               probability |-> Softmax(preds, pred_cls)],
             target_class_idx |-> pred_cls]

\* Mutant of SavePath: the file is named after the whole image path.
SavePath_FullName(img_path, task_name) == <<img_path, task_name>>

\* Config.CAM_DIR / f"{img_filename}_{task_name}_cam.png", as <<stem, task>>.
SavePath(img_path, task_name) == <<Stem(img_path), task_name>>

----------------------------------------------------------------------------
(* Object identity *)

\* The models of a task that some reference still holds: the cache, a frame's
\* local, or a caller's variable.
Referenced(task_name) ==
    {m \in {models_cache[t] : t \in DOMAIN models_cache}
              \cup {thread[th].model : th \in Threads}
              \cup {thread[th].prev : th \in Threads} : m.task = task_name}

\* The identity of a newly constructed model of a task: one that no live model
\* of the task has (models of different tasks differ by their task).
FreshId(task_name) ==
    LET used == {m.id : m \in Referenced(task_name)}
    IN CHOOSE n \in 1..(Cardinality(used) + 1) :
           /\ n \notin used
           /\ \A m \in 1..(n - 1) : m \in used

----------------------------------------------------------------------------
(* Control flow of one thread's frame *)

\* The locals of predict_and_explain and load_model, gone when they return.
ClearLocals(f) ==
    [f EXCEPT !.model = NoModel, !.reads = 0, !.preds = <<>>, !.pred = NoPrediction,
              !.target = 0, !.map_path = <<>>]

\* run_full_profile, line 251: the next task of the loop, or line 264.
NextProfile(f) ==
    IF f.idx < Len(Registry)
    THEN [ClearLocals(f) EXCEPT !.idx = f.idx + 1,
                                !.task_name = Registry[f.idx + 1].name,
                                !.pc = "load_check"]
    ELSE [ClearLocals(f) EXCEPT !.pc = "done"]

\* preload_all_models, line 173: the next task of the loop, or line 178.
NextPreload(f) ==
    IF f.idx < Len(Registry)
    THEN [ClearLocals(f) EXCEPT !.idx = f.idx + 1,
                                !.task_name = Registry[f.idx + 1].name,
                                !.pc = "load_check"]
    ELSE [ClearLocals(f) EXCEPT !.pc = "done"]

\* The handlers of run_full_profile, lines 258-261: what is printed for e.
ProfileHandler(e) == IF e.cls = "FileNotFoundError" THEN "skipping" ELSE "error"

\* Mutant of Raise: run_full_profile stores a placeholder entry for a task
\* that failed instead of omitting it.
Raise_Placeholder(f, e) ==
    CASE f.op = "run_full_profile" ->
            NextProfile([f EXCEPT !.log = Append(@, [task |-> f.task_name,
                                                     line |-> ProfileHandler(e),
                                                     exc |-> e]),
                                  !.results = Append(@, [task |-> f.task_name,
                                                         prediction |-> NoPrediction,
                                                         attention_map |-> <<>>])])
      [] f.op = "preload_all_models" ->
            NextPreload([f EXCEPT !.log = Append(@, [task |-> f.task_name,
                                                     line |-> "failed_preload",
                                                     exc |-> e])])
      [] OTHER -> [f EXCEPT !.pc = "done", !.exc = e]

\* Mutant of Raise: run_full_profile has no handler around the task, so the
\* first failure ends the profile.
Raise_Abort(f, e) ==
    CASE f.op = "preload_all_models" ->
            NextPreload([f EXCEPT !.log = Append(@, [task |-> f.task_name,
                                                     line |-> "failed_preload",
                                                     exc |-> e])])
      [] OTHER -> [f EXCEPT !.pc = "done", !.exc = e]

\* Mutant of Raise: preload_all_models has no handler around load_model, so
\* the first failure ends the warm-up.
Raise_PreloadAbort(f, e) ==
    CASE f.op = "run_full_profile" ->
            NextProfile([f EXCEPT !.log = Append(@, [task |-> f.task_name,
                                                     line |-> ProfileHandler(e),
                                                     exc |-> e])])
      [] OTHER -> [f EXCEPT !.pc = "done", !.exc = e]

\* Mutant of Raise: run_full_profile tries a failed task again.
Raise_Retry(f, e) ==
    CASE f.op = "run_full_profile" -> [ClearLocals(f) EXCEPT !.pc = "load_check"]
      [] f.op = "preload_all_models" ->
            NextPreload([f EXCEPT !.log = Append(@, [task |-> f.task_name,
                                                     line |-> "failed_preload",
                                                     exc |-> e])])
      [] OTHER -> [f EXCEPT !.pc = "done", !.exc = e]

\* An exception e raised inside load_model or predict_and_explain reaches the
\* caller's handler: run_full_profile (258-261) and preload_all_models
\* (176-177) print and go on, the other calls end with it.
Raise(f, e) ==
    CASE f.op = "run_full_profile" ->
            NextProfile([f EXCEPT !.log = Append(@, [task |-> f.task_name,
                                                     line |-> ProfileHandler(e),
                                                     exc |-> e])])
      [] f.op = "preload_all_models" ->
            NextPreload([f EXCEPT !.log = Append(@, [task |-> f.task_name,
                                                     line |-> "failed_preload",
                                                     exc |-> e])])
      [] OTHER -> [f EXCEPT !.pc = "done", !.exc = e]

\* load_model returns f.model to its caller (lines 144 and 168).
LoadReturn(f) ==
    CASE f.op = "load_model"         -> [f EXCEPT !.pc = "done"]
      [] f.op = "preload_all_models" -> NextPreload(f)
      [] OTHER                       -> [f EXCEPT !.pc = "predict"]

\* Mutant of ExplainReturn: the new entry is put in front of the earlier ones.
ExplainReturn_Prepend(f, save_path) ==
    IF f.op = "run_full_profile"
    THEN NextProfile([f EXCEPT !.results =
             <<[task |-> f.task_name, prediction |-> f.pred,
                attention_map |-> save_path]>> \o @])
    ELSE [f EXCEPT !.map_path = save_path, !.pc = "done"]

\* predict_and_explain returns (final_result, save_path), line 239; in
\* run_full_profile the entry is stored, lines 254-257.
ExplainReturn(f, save_path) ==
    IF f.op = "run_full_profile"
    THEN NextProfile([f EXCEPT !.results =
             Append(@, [task |-> f.task_name, prediction |-> f.pred,
                        attention_map |-> save_path])])
    ELSE [f EXCEPT !.map_path = save_path, !.pc = "done"]

----------------------------------------------------------------------------
(* Calls: an idle thread enters one of the engine's public methods *)

\* A step of the engine in thread th: its frame becomes f; what belongs to
\* the agents stays as it is.
Enter(th, f) ==
    /\ thread' = [thread EXCEPT ![th] = f]
    /\ UNCHANGED avars

CallLoadModel(th, task_name) ==
    /\ thread[th].pc = "idle"
    /\ Enter(th, [thread[th] EXCEPT !.op = "load_model", !.task_name = task_name,
                                    !.cache0 = models_cache,
                                    !.pc = "load_check"])
    /\ UNCHANGED <<models_cache, ckpt, cam_dir>>

CallPreloadAllModels(th) ==
    /\ thread[th].pc = "idle"
    /\ Enter(th, NextPreload([thread[th] EXCEPT !.op = "preload_all_models",
                                                !.cache0 = models_cache]))
    /\ UNCHANGED <<models_cache, ckpt, cam_dir>>

CallPredictAndExplain(th, img_path, task_name) ==
    /\ thread[th].pc = "idle"
    /\ Enter(th, [thread[th] EXCEPT !.op = "predict_and_explain",
                                    !.img_path = img_path,
                                    !.task_name = task_name,
                                    !.cache0 = models_cache,
                                    !.pc = "load_check"])
    /\ UNCHANGED <<models_cache, ckpt, cam_dir>>

CallRunFullProfile(th, img_path) ==
    /\ thread[th].pc = "idle"
    /\ Enter(th, NextProfile([thread[th] EXCEPT !.op = "run_full_profile",
                                                !.cache0 = models_cache,
                                                !.img_path = img_path]))
    /\ UNCHANGED <<models_cache, ckpt, cam_dir>>

----------------------------------------------------------------------------
(* load_model, lines 139-168, one action per step another thread can see *)

\* Mutant of LoadCheck: no cache lookup, every call builds and loads anew.
LoadCheck_NoCacheLookup(th) ==
    LET f == thread[th] IN
    /\ f.pc = "load_check"
    /\ IF TaskInfo(f.task_name) = NoTask
       THEN Enter(th, Raise(f, UnknownTaskError))
       ELSE Enter(th, [f EXCEPT !.pc = "load_build"])
    /\ UNCHANGED <<models_cache, ckpt, cam_dir>>

\* Mutant of LoadCheck: no registry lookup, an unknown name is only found out
\* as a checkpoint file that does not exist.
LoadCheck_NoRegistry(th) ==
    LET f == thread[th] IN
    /\ f.pc = "load_check"
    /\ IF f.task_name \in DOMAIN models_cache
       THEN Enter(th, LoadReturn([f EXCEPT !.model = models_cache[f.task_name]]))
       ELSE IF TaskInfo(f.task_name) = NoTask
            THEN Enter(th, Raise(f, CkptMissingError))
            ELSE Enter(th, [f EXCEPT !.pc = "load_build"])
    /\ UNCHANGED <<models_cache, ckpt, cam_dir>>

\* Mutant of LoadCheck: an unknown name is remembered in the cache, so that
\* the registry is asked only once about it.
LoadCheck_RemembersUnknown(th) ==
    LET f == thread[th] IN
    /\ f.pc = "load_check"
    /\ IF f.task_name \in DOMAIN models_cache /\ models_cache[f.task_name] # NoModel
       THEN /\ Enter(th, LoadReturn([f EXCEPT !.model = models_cache[f.task_name]]))
            /\ UNCHANGED models_cache
       ELSE IF TaskInfo(f.task_name) = NoTask
            THEN /\ Enter(th, Raise(f, UnknownTaskError))
                 /\ models_cache' = [t \in DOMAIN models_cache \cup {f.task_name} |->
                                       IF t = f.task_name THEN NoModel ELSE models_cache[t]]
            ELSE /\ Enter(th, [f EXCEPT !.pc = "load_build"])
                 /\ UNCHANGED models_cache
    /\ UNCHANGED <<ckpt, cam_dir>>

\* Lines 143-150: the cache lookup, then the registry lookup.
LoadCheck(th) ==
    LET f == thread[th] IN
    /\ f.pc = "load_check"
    /\ IF f.task_name \in DOMAIN models_cache
       THEN Enter(th, LoadReturn([f EXCEPT !.model = models_cache[f.task_name]]))
       ELSE IF TaskInfo(f.task_name) = NoTask
            THEN Enter(th, Raise(f, UnknownTaskError))
            ELSE Enter(th, [f EXCEPT !.pc = "load_build"])
    /\ UNCHANGED <<models_cache, ckpt, cam_dir>>

\* Mutant of LoadBuild: the model whose backbone could not be constructed is
\* left in the cache.
LoadBuild_KeepsFailed(th) ==
    LET f == thread[th] IN
    /\ f.pc = "load_build"
    /\ \/ /\ Enter(th, [f EXCEPT !.pc = "load_exists",
                                 !.model = [id |-> FreshId(f.task_name), task |-> f.task_name,
                                            backbone |-> NewBackbone(f.task_name, FreshId(f.task_name)),
                                            num_classes |-> TaskInfo(f.task_name).num_classes,
                                            weights |-> "random"]])
          /\ UNCHANGED models_cache
       \/ /\ Enter(th, Raise(f, BackboneError))
          /\ models_cache' =
                [t \in DOMAIN models_cache \cup {f.task_name} |->
                    IF t = f.task_name
                    THEN [id |-> FreshId(f.task_name), task |-> f.task_name,
                          backbone |-> <<>>,
                          num_classes |-> TaskInfo(f.task_name).num_classes,
                          weights |-> "random"]
                    ELSE models_cache[t]]
    /\ UNCHANGED <<ckpt, cam_dir>>

\* Lines 152-156: a new backbone (ViTModel.from_pretrained, which can fail)
\* and a new head of the task's size on it.
LoadBuild(th) ==
    LET f == thread[th] IN
    /\ f.pc = "load_build"
    /\ \/ Enter(th, [f EXCEPT !.pc = "load_exists",
                              !.model = [id |-> FreshId(f.task_name), task |-> f.task_name,
                                         backbone |-> NewBackbone(f.task_name, FreshId(f.task_name)),
                                         num_classes |-> TaskInfo(f.task_name).num_classes,
                                         weights |-> "random"]])
       \/ Enter(th, Raise(f, BackboneError))
    /\ UNCHANGED <<models_cache, ckpt, cam_dir>>

\* Mutant of LoadExists: the model is put into the cache as soon as it is
\* built, before its checkpoint is looked for.
LoadExists_CacheFirst(th) ==
    LET f == thread[th] IN
    /\ f.pc = "load_exists"
    /\ models_cache' = [t \in DOMAIN models_cache \cup {f.task_name} |->
                           IF t = f.task_name THEN f.model ELSE models_cache[t]]
    /\ IF ckpt[f.task_name] = "missing"
       THEN Enter(th, Raise(f, CkptMissingError))
       ELSE Enter(th, [f EXCEPT !.pc = "load_read"])
    /\ UNCHANGED <<ckpt, cam_dir>>

\* Mutant of LoadExists: a missing checkpoint is remembered in the cache, so
\* that the file is looked for only once.
LoadExists_RemembersMissing(th) ==
    LET f == thread[th] IN
    /\ f.pc = "load_exists"
    /\ IF ckpt[f.task_name] = "missing"
       THEN /\ Enter(th, Raise(f, CkptMissingError))
            /\ models_cache' =
                  [t \in DOMAIN models_cache \cup {f.task_name} |->
                      IF t = f.task_name THEN [f.model EXCEPT !.weights = "missing"]
                      ELSE models_cache[t]]
       ELSE /\ Enter(th, [f EXCEPT !.pc = "load_read"])
            /\ UNCHANGED models_cache
    /\ UNCHANGED <<ckpt, cam_dir>>

\* Lines 158-160: ckpt_path.exists().
LoadExists(th) ==
    LET f == thread[th] IN
    /\ f.pc = "load_exists"
    /\ IF ckpt[f.task_name] = "missing"
       THEN Enter(th, Raise(f, CkptMissingError))
       ELSE Enter(th, [f EXCEPT !.pc = "load_read"])
    /\ UNCHANGED <<models_cache, ckpt, cam_dir>>

\* Mutant of LoadRead: an unreadable checkpoint is reported with the error of
\* a missing one.
LoadRead_SameError(th) ==
    LET f == thread[th]
        g == [f EXCEPT !.reads = f.reads + 1]
    IN
    /\ f.pc = "load_read"
    /\ IF \/ ckpt[f.task_name] = "corrupt"
          \/ CkptHead(f.task_name, ckpt[f.task_name]) # f.model.num_classes
       THEN Enter(th, Raise(g, CkptMissingError))
       ELSE Enter(th, [g EXCEPT !.model.weights = ckpt[f.task_name],
                                !.pc = "load_cache"])
    /\ UNCHANGED <<models_cache, ckpt, cam_dir>>

\* Mutant of LoadRead: the head takes the size of the classifier in the
\* checkpoint.
LoadRead_Reshape(th) ==
    LET f == thread[th]
        g == [f EXCEPT !.reads = f.reads + 1]
    IN
    /\ f.pc = "load_read"
    /\ IF ckpt[f.task_name] = "corrupt"
       THEN Enter(th, Raise(g, CkptLoadError))
       ELSE Enter(th, [g EXCEPT !.model.weights = ckpt[f.task_name],
                                !.model.num_classes = CkptHead(f.task_name, ckpt[f.task_name]),
                                !.pc = "load_cache"])
    /\ UNCHANGED <<models_cache, ckpt, cam_dir>>

\* Lines 162-163: torch.load, and load_state_dict, which is strict about
\* the keys and the shapes of the state dict.
LoadRead(th) ==
    LET f == thread[th]
        g == [f EXCEPT !.reads = f.reads + 1]
    IN
    /\ f.pc = "load_read"
    /\ IF \/ ckpt[f.task_name] = "corrupt"
          \/ CkptHead(f.task_name, ckpt[f.task_name]) # f.model.num_classes
       THEN Enter(th, Raise(g, CkptLoadError))
       ELSE Enter(th, [g EXCEPT !.model.weights = ckpt[f.task_name],
                                !.pc = "load_cache"])
    /\ UNCHANGED <<models_cache, ckpt, cam_dir>>

\* Mutant of CacheInsert: the cache keeps the model as it was built, without
\* the weights that were loaded into the one the call returns.
CacheInsert_Untrained(cache, task_name, model) ==
    [t \in DOMAIN cache \cup {task_name} |->
        IF t = task_name THEN [model EXCEPT !.weights = "random"] ELSE cache[t]]

\* self.models_cache[task_name] = model, line 166.
CacheInsert(cache, task_name, model) ==
    [t \in DOMAIN cache \cup {task_name} |-> IF t = task_name THEN model ELSE cache[t]]

\* Lines 166-168: the insertion into the cache, and the return.
LoadCache(th) ==
    LET f == thread[th] IN
    /\ f.pc = "load_cache"
    /\ models_cache' = CacheInsert(models_cache, f.task_name, f.model)
    /\ Enter(th, LoadReturn(f))
    /\ UNCHANGED <<ckpt, cam_dir>>

----------------------------------------------------------------------------
(* predict_and_explain, lines 180-239, after its call of load_model *)

\* Lines 185-194: open and transform the image, run the model on it.
Predict(th) ==
    LET f == [thread[th] EXCEPT !.opens = @ + 1] IN
    /\ f.pc = "predict"
    /\ CASE ImageState(f.img_path) = "missing" -> Enter(th, Raise(f, ImageMissingError))
         [] ImageState(f.img_path) = "corrupt" -> Enter(th, Raise(f, ImageDecodeError))
         [] OTHER -> Enter(th, [f EXCEPT !.preds = Forward(f.model), !.pc = "decode"])
    /\ UNCHANGED <<models_cache, ckpt, cam_dir>>

\* Lines 196-209: the raw outputs are decoded into the prediction.
DecodeOutputs(th) ==
    LET f == thread[th]
        d == Decode(TaskInfo(f.task_name).kind, f.preds)
    IN
    /\ f.pc = "decode"
    /\ Enter(th, [f EXCEPT !.pred = d.final_result,
                           !.target = d.target_class_idx,
                           !.pc = "explain"])
    /\ UNCHANGED <<models_cache, ckpt, cam_dir>>

\* Mutant of Targets: the heatmap always explains the first class.
Targets_FirstClass(task_type, target_class_idx) ==
    IF task_type # "regression" THEN <<0>> ELSE <<>>

\* Line 220: the targets handed to GradCAM++, None (<<>>) for a regression.
Targets(task_type, target_class_idx) ==
    IF task_type # "regression" THEN <<target_class_idx>> ELSE <<>>

\* Line 222, cam(input_tensor, targets): the output the heatmap explains;
\* without targets the library takes the largest output.
CamTarget(targets, preds) ==
    IF targets = <<>> THEN ArgMax(preds) ELSE targets[1]

\* plt.savefig(save_path), line 235: the file is created or overwritten.
SaveFig(dir, save_path, figure) ==
    [n \in DOMAIN dir \cup {save_path} |-> IF n = save_path THEN figure ELSE dir[n]]

\* Mutant of Explain: the path is returned although the figure was not saved.
Explain_NoSave(th) ==
    LET f == thread[th]
        save_path == SavePath(f.img_path, f.task_name)
    IN
    /\ f.pc = "explain"
    /\ \/ Enter(th, ExplainReturn(f, save_path))
       \/ Enter(th, Raise(f, CamError))
    /\ UNCHANGED <<models_cache, ckpt, cam_dir>>

\* Lines 211-239: GradCAM++ and the overlay, which can fail, then savefig and
\* the return of (final_result, save_path).
Explain(th) ==
    LET f == thread[th]
        targets == Targets(TaskInfo(f.task_name).kind, f.target)
        target == CamTarget(targets, f.preds)
        save_path == SavePath(f.img_path, f.task_name)
    IN
    /\ f.pc = "explain"
    /\ \/ /\ cam_dir' = SaveFig(cam_dir, save_path,
                          [image |-> f.img_path, task |-> f.task_name, target |-> target])
          /\ Enter(th, ExplainReturn(f, save_path))
       \/ /\ Enter(th, Raise(f, CamError))
          /\ UNCHANGED cam_dir
    /\ UNCHANGED <<models_cache, ckpt>>

----------------------------------------------------------------------------
(* The caller and the environment *)

\* The caller takes the call's outcome; it keeps the model load_model gave it.
Finish(th) ==
    LET f == thread[th] IN
    /\ f.pc = "done"
    /\ Enter(th, [IdleFrame EXCEPT !.prev =
                    IF f.op = "load_model" /\ f.exc = NoExc THEN f.model ELSE f.prev])
    /\ UNCHANGED <<models_cache, ckpt, cam_dir>>

\* The caller takes the call's outcome; it keeps the profile run_full_profile
\* gave it, to compare the next one with.
Keep(th) ==
    LET f == thread[th] IN
    /\ f.pc = "done"
    /\ Enter(th, [IdleFrame EXCEPT !.kept =
                    IF f.op = "run_full_profile" /\ f.exc = NoExc
                    THEN [img_path |-> f.img_path, results |-> f.results,
                          log |-> f.log, cache0 |-> f.cache0]
                    ELSE f.kept])
    /\ UNCHANGED <<models_cache, ckpt, cam_dir>>

\* The request is answered and its thread takes no further one.
Leave(th) ==
    /\ thread[th].pc = "done"
    /\ Enter(th, [IdleFrame EXCEPT !.pc = "unstarted"])
    /\ UNCHANGED <<models_cache, ckpt, cam_dir>>

\* The time the caller of run_full_profile allows for the call runs out while
\* the call is at work; the call has no parameter for it (line 241) and
\* nothing in it looks at the clock.
DeadlinePasses(th) ==
    LET f == thread[th] IN
    /\ f.op = "run_full_profile"
    /\ f.pc \notin {"idle", "unstarted", "done"}
    /\ ~f.expired
    /\ Enter(th, [f EXCEPT !.expired = TRUE])
    /\ UNCHANGED <<models_cache, ckpt, cam_dir>>

\* A checkpoint file is deployed, removed or replaced, between two calls.
SetCheckpoint(task_name, state) ==
    /\ \A th \in Threads : thread[th].pc \in {"idle", "unstarted"}
    /\ ckpt[task_name] # state
    /\ ckpt' = [ckpt EXCEPT ![task_name] = state]
    /\ UNCHANGED <<models_cache, cam_dir, thread>>
    /\ UNCHANGED avars

----------------------------------------------------------------------------
(* The agents: no request yet *)

\* A thread that is in no request of an agent.
IdleRequest ==
    [ pc        |-> "idle",
      agent     |-> "",
      op        |-> "",
      has_image |-> FALSE,
      tmp_path  |-> "",
      ocular_api |-> 0,
      tool_ran  |-> FALSE,
      results   |-> <<>>,
      formatted |-> <<>>,
      failed    |-> FALSE,
      outcomes  |-> <<>> ]

\* The modules as they are imported: no engine yet, no tool output, no
\* temporary file.
InitAgents ==
    /\ api_instance = 0
    /\ apis_made = 0
    /\ LAST_TOOL_RESULTS = <<>>
    /\ tmp_files = {}
    /\ request = [th \in Threads |-> IdleRequest]

\* A step of the agents' code in thread th: its request becomes r.
Step(th, r) == request' = [request EXCEPT ![th] = r]

----------------------------------------------------------------------------
(* get_ocular_api, lines 270-280, one action per step another thread can see *)

\* A caller (the tool, line 78, or the diagnostic agent, line 100) enters
\* get_ocular_api.
CallGetOcularApi(th) ==
    /\ request[th].pc = "idle"
    /\ Step(th, [request[th] EXCEPT !.pc = "get_api", !.op = "get_ocular_api"])
    /\ UNCHANGED <<evars, api_instance, apis_made, LAST_TOOL_RESULTS, tmp_files>>

\* Line 274: if _api_instance is None.
GetApiCheck(th) ==
    /\ request[th].pc = "get_api"
    /\ Step(th, [request[th] EXCEPT !.pc =
                    IF api_instance = 0 THEN "api_construct" ELSE "api_return"])
    /\ UNCHANGED <<evars, api_instance, apis_made, LAST_TOOL_RESULTS, tmp_files>>

\* Lines 275-279: _api_instance = OcularInferenceAPI(); when the constructor
\* raises, the failure is printed and None is returned.
GetApiConstruct(th) ==
    /\ request[th].pc = "api_construct"
    /\ \/ /\ api_instance' = apis_made + 1
          /\ apis_made' = apis_made + 1
          /\ Step(th, [request[th] EXCEPT !.pc = "api_return"])
       \/ /\ Step(th, [request[th] EXCEPT !.pc = "got_api", !.ocular_api = 0])
          /\ UNCHANGED <<api_instance, apis_made>>
    /\ UNCHANGED <<evars, LAST_TOOL_RESULTS, tmp_files>>

\* Line 280: return _api_instance, the global as it is now.
GetApiReturn(th) ==
    /\ request[th].pc = "api_return"
    /\ Step(th, [request[th] EXCEPT !.pc = "got_api", !.ocular_api = api_instance])
    /\ UNCHANGED <<evars, api_instance, apis_made, LAST_TOOL_RESULTS, tmp_files>>

\* The caller has the engine, or None, and may ask again later.
GotOcularApi(th) ==
    /\ request[th].pc = "got_api"
    /\ request[th].op = "get_ocular_api"
    /\ Step(th, [request[th] EXCEPT !.pc = "idle", !.op = ""])
    /\ UNCHANGED <<evars, api_instance, apis_made, LAST_TOOL_RESULTS, tmp_files>>

----------------------------------------------------------------------------
(* The agents' respond and the tool analyze_retinal_scan *)

\* round(pred, 2): a value in thousandths to hundredths, a tie to the even
\* neighbour.
Round2(v) ==
    LET q == v \div 10
        r == v % 10
    IN IF r < 5 THEN q
       ELSE IF r > 5 THEN q + 1
       ELSE IF q % 2 = 0 THEN q ELSE q + 1

\* Mutant of FormatEntry: a task without a class is given class 0 with
\* probability 0 in place of its value.
FormatEntry_Placeholder(entry) ==
    [ task        |-> entry.task,
      prediction  |-> IF entry.prediction.kind = "class"
                      THEN entry.prediction.class ELSE 0,
      probability |-> IF entry.prediction.kind = "class"
                      THEN <<entry.prediction.probability>> ELSE <<0>>,
      gradcam_heatmap_url |-> <<"/gradcam", entry.attention_map>> ]

\* oculomics_agent.py, lines 86-95: the entry of one task in the tool's
\* output; a probability of None is <<>>.
FormatEntry(entry) ==
    [ task        |-> entry.task,
      prediction  |-> IF entry.prediction.kind = "class"
                      THEN entry.prediction.class
                      ELSE Round2(entry.prediction.value),
      probability |-> IF entry.prediction.kind = "class"
                      THEN <<entry.prediction.probability>> ELSE <<>>,
      gradcam_heatmap_url |-> <<"/gradcam", entry.attention_map>> ]

\* Lines 84-95: formatted_results, in the order of results.items().
FormatResults(results) == [i \in 1..Len(results) |-> FormatEntry(results[i])]

\* A request reaches respond of the oculomics or of the diagnostic agent,
\* with an image or with text alone.
CallRespond(th, agent, has_image) ==
    /\ request[th].pc = "idle"
    /\ thread[th].pc = "idle"
    /\ Step(th, [IdleRequest EXCEPT !.pc = "respond", !.op = "respond",
                                    !.agent = agent, !.has_image = has_image])
    /\ UNCHANGED <<evars, api_instance, apis_made, LAST_TOOL_RESULTS, tmp_files>>

\* oculomics_agent.py 127-129, diagnostic_agent.py 93-95: the image is
\* written to a temporary file that stays when it is closed.
WriteTemp(th) ==
    LET r == request[th] IN
    /\ r.pc = "respond"
    /\ r.has_image
    /\ tmp_files' = tmp_files \cup {TmpName(th)}
    /\ Step(th, [r EXCEPT !.tmp_path = TmpName(th),
                          !.pc = IF r.agent = "oculomics" THEN "send_message"
                                 ELSE "get_api"])
    /\ UNCHANGED <<evars, api_instance, apis_made, LAST_TOOL_RESULTS>>

\* oculomics_agent.py 158: a request without an image is answered by the
\* language model alone.
Chat(th) ==
    LET r == request[th] IN
    /\ r.pc = "respond"
    /\ ~r.has_image
    /\ Step(th, [r EXCEPT !.pc = "read_outcomes"])
    /\ UNCHANGED <<evars, api_instance, apis_made, LAST_TOOL_RESULTS, tmp_files>>

\* oculomics_agent.py 140-147: send_message with automatic function calling:
\* the language model calls the tool with the path (lines 76-78), or answers
\* without it, or the call raises.
SendMessage(th) ==
    LET r == request[th] IN
    /\ r.pc = "send_message"
    /\ \/ Step(th, [r EXCEPT !.pc = "get_api"])
       \/ Step(th, [r EXCEPT !.pc = "unlink"])
       \/ Step(th, [r EXCEPT !.pc = "unlink", !.failed = TRUE])
    /\ UNCHANGED <<evars, api_instance, apis_made, LAST_TOOL_RESULTS, tmp_files>>

\* oculomics_agent.py 82, diagnostic_agent.py 102: run_full_profile on the
\* temporary file.
RunProfile(th) ==
    LET r == request[th] IN
    /\ r.pc = "got_api"
    /\ r.op = "respond"
    /\ r.ocular_api # 0
    /\ CallRunFullProfile(th, r.tmp_path)

\* oculomics_agent.py 84-100: the tool formats the mapping, stores it in the
\* module's global and returns it; diagnostic_agent.py 103-113: the mapping
\* goes into the prompt.
ToolFormat(th) ==
    LET r == request[th]
        formatted_results == FormatResults(thread[th].results)
    IN
    /\ r.pc = "got_api"
    /\ r.op = "respond"
    /\ thread[th].pc = "done"
    /\ thread[th].op = "run_full_profile"
    /\ thread' = [thread EXCEPT ![th] = IdleFrame]
    /\ IF r.agent = "oculomics"
       THEN /\ LAST_TOOL_RESULTS' = formatted_results
            /\ Step(th, [r EXCEPT !.results = thread[th].results,
                                  !.formatted = formatted_results,
                                  !.tool_ran = TRUE,
                                  !.pc = "reply"])
       ELSE /\ UNCHANGED LAST_TOOL_RESULTS
            /\ Step(th, [r EXCEPT !.results = thread[th].results,
                                  !.formatted = formatted_results,
                                  !.pc = "unlink"])
    /\ UNCHANGED <<models_cache, ckpt, cam_dir, api_instance, apis_made, tmp_files>>

\* oculomics_agent.py 147-152: the language model writes the reply from the
\* tool's output, or the call raises and the reply reports the error.
Reply(th) ==
    LET r == request[th] IN
    /\ r.pc = "reply"
    /\ \/ Step(th, [r EXCEPT !.pc = "unlink"])
       \/ Step(th, [r EXCEPT !.pc = "unlink", !.failed = TRUE])
    /\ UNCHANGED <<evars, api_instance, apis_made, LAST_TOOL_RESULTS, tmp_files>>

\* Mutant of Unlink: the file is removed after the try block, not in a
\* finally clause.
Unlink_NoFinally(th) ==
    LET r == request[th] IN
    /\ r.pc = "unlink"
    /\ tmp_files' = IF r.failed THEN tmp_files ELSE tmp_files \ {r.tmp_path}
    /\ Step(th, [r EXCEPT !.pc = IF r.agent = "oculomics" THEN "read_outcomes"
                                 ELSE "return"])
    /\ UNCHANGED <<evars, api_instance, apis_made, LAST_TOOL_RESULTS>>

\* oculomics_agent.py 153-155, diagnostic_agent.py 116-118: finally, the
\* temporary file is removed.
Unlink(th) ==
    LET r == request[th] IN
    /\ r.pc = "unlink"
    /\ tmp_files' = tmp_files \ {r.tmp_path}
    /\ Step(th, [r EXCEPT !.pc = IF r.agent = "oculomics" THEN "read_outcomes"
                                 ELSE "return"])
    /\ UNCHANGED <<evars, api_instance, apis_made, LAST_TOOL_RESULTS>>

\* oculomics_agent.py 161: outcomes is a copy of the global, None (<<>>) when
\* it is empty.
ReadOutcomes(th) ==
    LET r == request[th] IN
    /\ r.pc = "read_outcomes"
    /\ Step(th, [r EXCEPT !.outcomes = LAST_TOOL_RESULTS, !.pc = "clear"])
    /\ UNCHANGED <<evars, api_instance, apis_made, LAST_TOOL_RESULTS, tmp_files>>

\* oculomics_agent.py 162: the global is emptied for the next request.
ClearResults(th) ==
    LET r == request[th] IN
    /\ r.pc = "clear"
    /\ LAST_TOOL_RESULTS' = <<>>
    /\ Step(th, [r EXCEPT !.pc = "return"])
    /\ UNCHANGED <<evars, api_instance, apis_made, tmp_files>>

\* oculomics_agent.py 169, routers/oculomics.py 52-71: the reply and the
\* outcomes go to the client; the thread takes no further request.
Return(th) ==
    LET r == request[th] IN
    /\ r.pc = "return"
    /\ Step(th, [r EXCEPT !.pc = "returned"])
    /\ UNCHANGED <<evars, api_instance, apis_made, LAST_TOOL_RESULTS, tmp_files>>

----------------------------------------------------------------------------
(* Specifications *)

\* OcularInferenceAPI.__init__ (line 136): an empty cache; any checkpoint
\* directory; the heatmap directory exists and is empty.
InitEngine ==
    /\ models_cache = <<>>
    /\ ckpt \in [TaskNames -> CkptStates]
    /\ cam_dir = <<>>
    /\ InitAgents

\* A caller's next call, with a task name and an image path of the given sets.
Call(th, names, images) ==
    \/ \E t \in names : CallLoadModel(th, t)
    \/ CallPreloadAllModels(th)
    \/ \E i \in images, t \in names : CallPredictAndExplain(th, i, t)
    \/ \E i \in images : CallRunFullProfile(th, i)

\* The next step of the call a thread is in.
Run(th) ==
    \/ LoadCheck(th)
    \/ LoadBuild(th)
    \/ LoadExists(th)
    \/ LoadRead(th)
    \/ LoadCache(th)
    \/ Predict(th)
    \/ DecodeOutputs(th)
    \/ Explain(th)

\* One caller: the calls follow one another.
Init ==
    /\ InitEngine
    /\ thread = [th \in Threads |->
                    IF th = MainThread THEN IdleFrame
                    ELSE [IdleFrame EXCEPT !.pc = "unstarted"]]

Next ==
    \/ \E th \in Threads : Call(th, TaskNames \cup {UnknownTask}, Images)
    \/ \E th \in Threads : Run(th)
    \/ \E th \in Threads : Finish(th)
    \/ \E t \in TaskNames, s \in CkptStates : SetCheckpoint(t, s)

Spec == Init /\ [][Next]_vars

\* The cache after earlier requests loaded the tasks of warm, one after the
\* other, from the checkpoints as they are.
Warmed(warm) ==
    [t \in warm |-> [id |-> 1, task |-> t, backbone |-> NewBackbone(t, 1),
                     num_classes |-> TaskInfo(t).num_classes,
                     weights |-> ckpt[t]]]

\* Concurrent requests: the threads of the pool each take one request on the
\* one engine, new or warmed by earlier requests; the checkpoint directory
\* stays as it is.
InitConc ==
    /\ ckpt \in [TaskNames -> CkptStates]
    /\ \E warm \in SUBSET {t \in TaskNames : ckpt[t] \in {"w1", "w2"}} :
           models_cache = Warmed(warm)
    /\ cam_dir = <<>>
    /\ InitAgents
    /\ thread = [th \in Threads |-> IdleFrame]

NextConc ==
    \/ \E th \in Threads : Call(th, TaskNames, {"fundus.jpg"})
    \/ \E th \in Threads : Run(th)
    \/ \E th \in Threads : Leave(th)

SpecConc == InitConc /\ [][NextConc]_vars

\* Decoding on its own: one predict_and_explain call at line 196, for any
\* task of Config.TASKS and any raw outputs of the size of its head.
Logits(n) == [1..n -> 0..MaxLogit]

DecodeFrames ==
    UNION {{[IdleFrame EXCEPT !.pc = "decode",
                              !.op = "predict_and_explain",
                              !.img_path = "fundus.jpg",
                              !.task_name = TASKS[i].name,
                              !.model = [id |-> 1, task |-> TASKS[i].name,
                                         backbone |-> NewBackbone(TASKS[i].name, 1),
                                         num_classes |-> TASKS[i].num_classes,
                                         weights |-> "w1"],
                              !.opens = 1,
                              !.preds = preds] : preds \in Logits(TASKS[i].num_classes)}
           : i \in 1..Len(TASKS)}

InitDecode ==
    /\ models_cache = <<>>
    /\ ckpt = [t \in TaskNames |-> "w1"]
    /\ cam_dir = <<>>
    /\ InitAgents
    /\ \E f \in DecodeFrames :
           thread = [th \in Threads |->
                        IF th = MainThread THEN f
                        ELSE [IdleFrame EXCEPT !.pc = "unstarted"]]

NextDecode ==
    \/ \E th \in Threads : DecodeOutputs(th)
    \/ \E th \in Threads : Explain(th)
    \/ \E th \in Threads : Leave(th)

SpecDecode == InitDecode /\ [][NextDecode]_vars

\* Calls run again: one caller, the checkpoint directory stays as it is, the
\* images are readable; the caller keeps the last profile it got. With the
\* files unchanged one version of the weights is enough.
RerunCkptStates == {"missing", "corrupt", "w1"}

InitRerun ==
    /\ models_cache = <<>>
    /\ ckpt \in [TaskNames -> RerunCkptStates]
    /\ cam_dir = <<>>
    /\ InitAgents
    /\ thread = [th \in Threads |->
                    IF th = MainThread THEN IdleFrame
                    ELSE [IdleFrame EXCEPT !.pc = "unstarted"]]

NextRerun ==
    \/ \E th \in Threads : Call(th, TaskNames, RerunImages)
    \/ \E th \in Threads : Run(th)
    \/ \E th \in Threads : Keep(th)

SpecRerun == InitRerun /\ [][NextRerun]_vars

\* Calls tried again after a deployment: one caller loads tasks and runs
\* profiles on a readable image, checkpoint files are deployed and removed
\* between the calls; the caller keeps the last profile it got.
DeployStates == {"missing", "w1"}

InitRetry ==
    /\ models_cache = <<>>
    /\ ckpt \in [TaskNames -> DeployStates]
    /\ cam_dir = <<>>
    /\ InitAgents
    /\ thread = [th \in Threads |->
                    IF th = MainThread THEN IdleFrame
                    ELSE [IdleFrame EXCEPT !.pc = "unstarted"]]

NextRetry ==
    \/ \E th \in Threads, t \in TaskNames : CallLoadModel(th, t)
    \/ \E th \in Threads : CallRunFullProfile(th, "fundus.jpg")
    \/ \E th \in Threads : Run(th)
    \/ \E th \in Threads : Keep(th)
    \/ \E t \in TaskNames, s \in DeployStates : SetCheckpoint(t, s)

SpecRetry == InitRetry /\ [][NextRetry]_vars

\* Checkpoints of the right and of another head size: one caller, a readable
\* image, the files replaced between the calls.
InitHead ==
    /\ models_cache = <<>>
    /\ ckpt \in [TaskNames -> HeadCkptStates]
    /\ cam_dir = <<>>
    /\ InitAgents
    /\ thread = [th \in Threads |->
                    IF th = MainThread THEN IdleFrame
                    ELSE [IdleFrame EXCEPT !.pc = "unstarted"]]

NextHead ==
    \/ \E th \in Threads : Call(th, TaskNames, {"fundus.jpg"})
    \/ \E th \in Threads : Run(th)
    \/ \E th \in Threads : Finish(th)
    \/ \E t \in TaskNames, s \in HeadCkptStates : SetCheckpoint(t, s)

SpecHead == InitHead /\ [][NextHead]_vars

\* Profiles under a caller's deadline: one caller runs profiles on a readable
\* image, and the time it allows for a call may run out during the call.
NextDeadline ==
    \/ \E th \in Threads : CallRunFullProfile(th, "fundus.jpg")
    \/ \E th \in Threads : Run(th)
    \/ \E th \in Threads : DeadlinePasses(th)
    \/ \E th \in Threads : Finish(th)

SpecDeadline == Init /\ [][NextDeadline]_vars

\* The accessor of the engine, called by the request threads of the server
\* at the same time, from a process that has no engine yet.
NextSingleton ==
    \/ \E th \in Threads : CallGetOcularApi(th)
    \/ \E th \in Threads : GetApiCheck(th)
    \/ \E th \in Threads : GetApiConstruct(th)
    \/ \E th \in Threads : GetApiReturn(th)
    \/ \E th \in Threads : GotOcularApi(th)

InitSingleton ==
    /\ models_cache = <<>>
    /\ ckpt = [t \in TaskNames |-> "w1"]
    /\ cam_dir = <<>>
    /\ InitAgents
    /\ thread = [th \in Threads |-> IdleFrame]

SpecSingleton == InitSingleton /\ [][NextSingleton]_vars

\* The agents at work: every request thread answers one request, with or
\* without an image, on the engine the process already has, whose models are
\* all in the cache.
InitAgent ==
    /\ ckpt = [t \in TaskNames |-> "w1"]
    /\ models_cache = Warmed(TaskNames)
    /\ cam_dir = <<>>
    /\ thread = [th \in Threads |-> IdleFrame]
    /\ api_instance = 1
    /\ apis_made = 1
    /\ LAST_TOOL_RESULTS = <<>>
    /\ tmp_files = {}
    /\ request = [th \in Threads |-> IdleRequest]

NextAgent ==
    \/ \E th \in Threads : CallRespond(th, "oculomics", TRUE)
    \/ \E th \in Threads : CallRespond(th, "oculomics", FALSE)
    \/ \E th \in Threads : CallRespond(th, "diagnostic", TRUE)
    \/ \E th \in Threads : WriteTemp(th)
    \/ \E th \in Threads : Chat(th)
    \/ \E th \in Threads : SendMessage(th)
    \/ \E th \in Threads : GetApiCheck(th)
    \/ \E th \in Threads : GetApiReturn(th)
    \/ \E th \in Threads : RunProfile(th)
    \/ \E th \in Threads : LoadCheck(th)
    \/ \E th \in Threads : Predict(th)
    \/ \E th \in Threads : DecodeOutputs(th)
    \/ \E th \in Threads : Explain(th)
    \/ \E th \in Threads : ToolFormat(th)
    \/ \E th \in Threads : Reply(th)
    \/ \E th \in Threads : Unlink(th)
    \/ \E th \in Threads : ReadOutcomes(th)
    \/ \E th \in Threads : ClearResults(th)
    \/ \E th \in Threads : Return(th)

SpecAgent == InitAgent /\ [][NextAgent]_vars

\* The tool's formatting on its own: run_full_profile has returned to the
\* tool (line 82) any mapping of the registry's tasks, in registry order,
\* with scalars of 0..MaxScalar thousandths.
Predictions(task) ==
    IF task.kind = "regression"
    THEN {[kind |-> "scalar", value |-> v, class |-> 0, probability |-> 0] :
             v \in 0..MaxScalar}
    ELSE {[kind |-> "class", value |-> 0, class |-> c, probability |-> q] :
             c \in 0..(task.num_classes - 1), q \in {50, 100}}

RECURSIVE Mappings(_)
Mappings(i) ==
    IF i > Len(Registry) THEN {<<>>}
    ELSE LET rest == Mappings(i + 1)
             task == Registry[i]
         IN rest \cup
            {<<[task |-> task.name, prediction |-> pred,
                attention_map |-> SavePath(TmpName(MainThread), task.name)]>> \o m :
                 pred \in Predictions(task), m \in rest}

InitFormat ==
    /\ ckpt = [t \in TaskNames |-> "w1"]
    /\ models_cache = Warmed(TaskNames)
    /\ cam_dir = <<>>
    /\ api_instance = 1
    /\ apis_made = 1
    /\ LAST_TOOL_RESULTS = <<>>
    /\ tmp_files = {TmpName(MainThread)}
    /\ \E results \in Mappings(1) :
          /\ thread = [th \in Threads |->
                          IF th = MainThread
                          THEN [IdleFrame EXCEPT !.pc = "done",
                                                 !.op = "run_full_profile",
                                                 !.img_path = TmpName(MainThread),
                                                 !.idx = Len(Registry),
                                                 !.results = results,
                                                 !.cache0 = models_cache]
                          ELSE [IdleFrame EXCEPT !.pc = "unstarted"]]
          /\ request = [th \in Threads |->
                           IF th = MainThread
                           THEN [IdleRequest EXCEPT !.pc = "got_api",
                                                    !.op = "respond",
                                                    !.agent = "oculomics",
                                                    !.has_image = TRUE,
                                                    !.tmp_path = TmpName(MainThread),
                                                    !.ocular_api = 1]
                           ELSE IdleRequest]

NextFormat ==
    \/ \E th \in Threads : ToolFormat(th)
    \/ \E th \in Threads : Reply(th)
    \/ \E th \in Threads : Unlink(th)
    \/ \E th \in Threads : ReadOutcomes(th)
    \/ \E th \in Threads : ClearResults(th)
    \/ \E th \in Threads : Return(th)

SpecFormat == InitFormat /\ [][NextFormat]_vars

----------------------------------------------------------------------------
(* Vocabulary of the properties *)

\* The call of thread th has ended: it returned, or it raised exc.
Ended(th, op) == thread[th].pc = "done" /\ thread[th].op = op

Returned(th, op) == Ended(th, op) /\ thread[th].exc = NoExc

\* The keys of a result mapping, and the tasks a call printed a failure for.
Keys(results) == {results[i].task : i \in 1..Len(results)}

Logged(log) == {log[i].task : i \in 1..Len(log)}

\* The places of a fault that is neither a missing checkpoint nor the image.
NoFaultIn(log) ==
    \A i \in 1..Len(log) : log[i].exc.at \notin {"backbone", "gradcam"}

\* The tasks whose checkpoint file is present.
Present == {t \in TaskNames : ckpt[t] # "missing"}

----------------------------------------------------------------------------
(* C1 *)

\* C1: run_full_profile on an unreadable (corrupt or truncated) image raises
\* ImageDecodeError to its caller instead of returning a mapping, and writes no
\* heatmap of that image, whatever the checkpoints and the cache.
C1_UnreadableImageRaises ==
    \A th \in Threads :
        (Ended(th, "run_full_profile") /\ ImageState(thread[th].img_path) = "corrupt")
            => /\ thread[th].exc = ImageDecodeError
               /\ \A t \in TaskNames : SavePath(thread[th].img_path, t) \notin DOMAIN cam_dir

----------------------------------------------------------------------------
(* C2 *)

\* The case of C2: a profile of a readable image has ended, every checkpoint
\* is either a loadable file or missing, and nothing but missing checkpoints
\* failed in the call.
C2_Case(th) ==
    /\ Ended(th, "run_full_profile")
    /\ ImageState(thread[th].img_path) = "readable"
    /\ \A t \in TaskNames : ckpt[t] # "corrupt"
    /\ NoFaultIn(thread[th].log)

\* C2 as stated: for a readable image and the set S of tasks whose checkpoint
\* is present (all others missing), the keys of the mapping run_full_profile
\* returns are exactly S.
C2_KeysArePresentCheckpoints ==
    \A th \in Threads :
        C2_Case(th) => /\ thread[th].exc = NoExc
                       /\ Keys(thread[th].results) = Present

\* C2 as amended: the keys are exactly the tasks whose checkpoint is present
\* or whose model was already in the cache when the call began.
C2_KeysArePresentOrCached ==
    \A th \in Threads :
        C2_Case(th) => /\ thread[th].exc = NoExc
                       /\ Keys(thread[th].results) =
                              Present \cup DOMAIN thread[th].cache0

\* A profile that kept a task whose checkpoint had been removed after its
\* model was cached, and omitted a task whose checkpoint is missing.
C2_Witness ==
    \E th \in Threads :
        /\ C2_Case(th)
        /\ \E t \in Keys(thread[th].results) : ckpt[t] = "missing"
        /\ Keys(thread[th].results) # TaskNames

----------------------------------------------------------------------------
(* C3 *)

\* C3: a failure of load, predict or explain for one task never aborts
\* run_full_profile: the call raises nothing, the failing task is omitted,
\* every later task of the registry is still attempted, and the call returns.
C3_TaskFailureNeverAborts ==
    \A th \in Threads :
        thread[th].op = "run_full_profile" =>
            LET f == thread[th]
                attempted == IF f.pc = "done" THEN f.idx ELSE f.idx - 1
            IN /\ f.exc = NoExc
               /\ Keys(f.results) \cap Logged(f.log) = {}
               /\ Keys(f.results) \cup Logged(f.log) =
                      {Registry[i].name : i \in 1..attempted}
               /\ f.pc = "done" => f.idx = Len(Registry)

\* A profile that returned after its first task failed at the checkpoint and
\* a later task failed in the saliency pass or succeeded.
C3_Witness ==
    \E th \in Threads :
        /\ Returned(th, "run_full_profile")
        /\ Len(thread[th].log) >= 1
        /\ thread[th].log[1].task = Registry[1].name
        /\ thread[th].log[1].exc = CkptLoadError
        /\ Registry[Len(Registry)].name \in Keys(thread[th].results)

----------------------------------------------------------------------------
(* C4 *)

\* C4: every entry of the mapping of run_full_profile carries a prediction
\* and an attention-map path whose file is on disk; a task whose prediction
\* succeeded and whose explanation failed has no entry.
C4_EntriesComplete ==
    \A th \in Threads :
        thread[th].op = "run_full_profile" =>
            LET f == thread[th] IN
            /\ \A i \in 1..Len(f.results) :
                  /\ f.results[i].prediction # NoPrediction
                  /\ f.results[i].attention_map = SavePath(f.img_path, f.results[i].task)
                  /\ f.results[i].attention_map \in DOMAIN cam_dir
            /\ \A i \in 1..Len(f.log) :
                  f.log[i].exc = CamError => f.log[i].task \notin Keys(f.results)

\* A returned profile with an entry, and a task whose explanation failed.
C4_Witness ==
    \E th \in Threads :
        /\ Returned(th, "run_full_profile")
        /\ thread[th].results # <<>>
        /\ \E i \in 1..Len(thread[th].log) : thread[th].log[i].exc = CamError

----------------------------------------------------------------------------
(* C5 *)

\* C5: a caller that calls load_model twice for a task gets the cached
\* instance the second time: the first call reads the checkpoint once, the
\* second returns the same object and reads nothing, whatever became of the
\* checkpoint file in between.
C5_LoadTwiceSameInstance ==
    \A th \in Threads :
        Returned(th, "load_model") =>
            LET f == thread[th] IN
            /\ f.task_name \notin DOMAIN f.cache0 => f.reads = 1
            /\ f.prev.task = f.task_name => f.model = f.prev /\ f.reads = 0

\* The second load of a task returned although the checkpoint file is gone or
\* holds other weights than the cached model.
C5_Witness ==
    \E th \in Threads :
        /\ Returned(th, "load_model")
        /\ thread[th].prev.task = thread[th].task_name
        /\ ckpt[thread[th].task_name] # thread[th].model.weights

----------------------------------------------------------------------------
(* C6 *)

\* C6: when two concurrent requests both call load for a task that is not yet
\* cached, the task's weights are loaded once and both requests obtain the
\* same model instance.
C6_ConcurrentLoadOnce ==
    \A a, b \in Threads :
        (/\ a # b
         /\ Returned(a, "load_model")
         /\ Returned(b, "load_model")
         /\ thread[a].task_name = thread[b].task_name)
            => /\ thread[a].model = thread[b].model
               /\ thread[a].reads + thread[b].reads <= 1

----------------------------------------------------------------------------
(* C7 *)

\* C7: the cache is append-only and write-once: no step of any interleaving
\* of the engine's calls removes an entry or replaces it with another
\* instance.
C7_CacheWriteOnce ==
    [][\A t \in DOMAIN models_cache :
          /\ t \in DOMAIN models_cache'
          /\ models_cache'[t] = models_cache[t]]_vars

----------------------------------------------------------------------------
(* C8 *)

\* The steps of load_model before the insertion into the cache.
LoadSteps == {"load_check", "load_build", "load_exists", "load_read"}

\* A step of th in which load_model raises: the call ends with the exception,
\* or the loop that called it prints the failure.
LoadFails(th) ==
    /\ thread[th].pc \in LoadSteps
    /\ \/ thread'[th].exc # NoExc
       \/ Len(thread'[th].log) > Len(thread[th].log)

\* C8: a failed load leaves the cache exactly as it was: nothing is inserted
\* for the failing task and the entries of the other tasks are unchanged.
C8_FailedLoadKeepsCache ==
    [][\A th \in Threads : LoadFails(th) => models_cache' = models_cache]_vars

\* load_model has just failed at the checkpoint of a task while the cache
\* holds another task, and holds nothing for the failing one.
C8_Witness ==
    \E th \in Threads :
        /\ Ended(th, "load_model")
        /\ thread[th].exc \in {CkptMissingError, CkptLoadError}
        /\ DOMAIN models_cache # {}
        /\ thread[th].task_name \notin DOMAIN models_cache
        /\ models_cache = thread[th].cache0

----------------------------------------------------------------------------
(* C9 *)

\* C9: load_model and predict_and_explain given a name that is not in the
\* registry fail with the unknown-task error at the registry lookup, in every
\* cache state, before any checkpoint or image is read, and leave the cache
\* unchanged.
C9_UnknownTaskRejected ==
    \A th \in Threads :
        (/\ thread[th].op \in {"load_model", "predict_and_explain"}
         /\ thread[th].task_name \notin TaskNames)
            => LET f == thread[th] IN
               /\ f.pc \in {"load_check", "done"}
               /\ f.pc = "done" => f.exc = UnknownTaskError
               /\ f.reads = 0
               /\ f.model = NoModel
               /\ f.pred = NoPrediction
               /\ models_cache = f.cache0
               /\ f.task_name \notin DOMAIN models_cache

\* predict_and_explain of an unknown task has failed on a non-empty cache.
C9_Witness ==
    \E th \in Threads :
        /\ Ended(th, "predict_and_explain")
        /\ thread[th].task_name = UnknownTask
        /\ thread[th].exc = UnknownTaskError
        /\ models_cache # <<>>

----------------------------------------------------------------------------
(* C10 *)

\* C10: load_model reports a missing checkpoint and an unreadable or
\* mismatched one as two distinct errors; a cached model always has loaded
\* weights, and it is in the cache when load_model returns it.
C10_LoadErrorsAndInsertion ==
    /\ \A th \in Threads :
          (Ended(th, "load_model") /\ thread[th].task_name \in TaskNames) =>
              LET f == thread[th]
                  file == ckpt[f.task_name]
                  cached == f.task_name \in DOMAIN models_cache
              IN
              /\ f.exc.at = "checkpoint"
                    => /\ f.exc.cls = "FileNotFoundError" <=> file = "missing"
                       /\ f.exc.cls = "RuntimeError" <=> file = "corrupt"
                       /\ ~cached
              /\ (file = "missing" /\ ~cached) => f.exc \in {CkptMissingError, BackboneError}
              /\ (file = "corrupt" /\ ~cached) => f.exc \in {CkptLoadError, BackboneError}
              /\ f.exc = NoExc => cached /\ models_cache[f.task_name] = f.model
    /\ \A t \in DOMAIN models_cache :
          /\ models_cache[t].task = t
          /\ models_cache[t].weights \in CkptStates \ {"missing", "corrupt"}

\* load_model has failed on an unreadable checkpoint with the error that is
\* not the one of a missing file, and cached nothing for the task.
C10_Witness ==
    \E th \in Threads :
        /\ Ended(th, "load_model")
        /\ thread[th].exc = CkptLoadError
        /\ ckpt[thread[th].task_name] = "corrupt"
        /\ thread[th].exc.cls # "FileNotFoundError"
        /\ thread[th].task_name \notin DOMAIN models_cache

----------------------------------------------------------------------------
(* C11 *)

\* The place of a task in the registry.
RegistryIndex(task_name) ==
    CHOOSE i \in 1..Len(Registry) : Registry[i].name = task_name

\* C11: the result mapping of run_full_profile iterates its keys in registry
\* order, restricted to the tasks that succeeded, whichever tasks fail.
C11_ResultsInRegistryOrder ==
    \A th \in Threads :
        thread[th].op = "run_full_profile" =>
            LET r == thread[th].results IN
            \A i, j \in 1..Len(r) :
                i < j => RegistryIndex(r[i].task) < RegistryIndex(r[j].task)

\* A returned profile with at least two entries.
C11_Witness ==
    \E th \in Threads :
        /\ Returned(th, "run_full_profile")
        /\ Len(thread[th].results) >= 2

----------------------------------------------------------------------------
(* C12 *)

\* C12: a backbone load failure is fatal for the whole profile:
\* run_full_profile raises it to its caller and returns no mapping from which
\* the tasks are silently omitted.
C12_BackboneFailureRaises ==
    \A th \in Threads :
        (/\ Ended(th, "run_full_profile")
         /\ \E i \in 1..Len(thread[th].log) : thread[th].log[i].exc = BackboneError)
            => thread[th].exc = BackboneError

----------------------------------------------------------------------------
(* C13 *)

\* C13: preload_all_models calls load_model for every registry entry, a
\* failure for one task does not prevent the attempt for a later one, the
\* call never raises, and afterwards the cache holds exactly the entries it
\* held before plus every task whose checkpoint loaded.
C13_PreloadAll ==
    \A th \in Threads :
        thread[th].op = "preload_all_models" =>
            LET f == thread[th]
                failed == Logged(f.log)
            IN
            /\ f.exc = NoExc
            /\ \A i \in 1..Len(f.log) :
                  f.log[i].exc \in {BackboneError, CkptMissingError, CkptLoadError}
            /\ f.pc = "done" =>
                  /\ f.idx = Len(Registry)
                  /\ DOMAIN models_cache = DOMAIN f.cache0 \cup (TaskNames \ failed)
                  /\ failed \cap DOMAIN models_cache = {}
                  /\ \A t \in DOMAIN f.cache0 : models_cache[t] = f.cache0[t]
                  /\ \A t \in DOMAIN models_cache \ DOMAIN f.cache0 :
                        models_cache[t].weights = ckpt[t]
                  /\ \A t \in failed :
                        /\ ckpt[t] = "missing" =>
                              \E i \in 1..Len(f.log) :
                                 /\ f.log[i].task = t
                                 /\ f.log[i].exc \in {BackboneError, CkptMissingError}
                        /\ ckpt[t] \notin {"missing", "corrupt"} =>
                              \E i \in 1..Len(f.log) :
                                 f.log[i].task = t /\ f.log[i].exc = BackboneError

\* A warm-up that ended after its first task failed and a later task was
\* loaded, on a cache that already held an entry or not.
C13_Witness ==
    \E th \in Threads :
        /\ Returned(th, "preload_all_models")
        /\ Registry[1].name \in Logged(thread[th].log)
        /\ Registry[Len(Registry)].name \in DOMAIN models_cache
        /\ Registry[Len(Registry)].name \notin DOMAIN thread[th].cache0

----------------------------------------------------------------------------
(* C17 *)

\* C17: the backbone is loaded once: every model in the cache stands on the
\* same single backbone object.
C17_OneSharedBackbone ==
    \A t1, t2 \in DOMAIN models_cache :
        models_cache[t1].backbone = models_cache[t2].backbone

----------------------------------------------------------------------------
(* C18 *)

\* C18: run_full_profile opens and preprocesses its image exactly once per
\* call, not once per task.
C18_ImageOpenedOncePerCall ==
    \A th \in Threads :
        thread[th].op = "run_full_profile" =>
            /\ thread[th].opens <= 1
            /\ thread[th].pc = "done" => thread[th].opens = 1

----------------------------------------------------------------------------
(* C14 *)

\* C14: the shape of a decoded prediction follows from the kind of the task
\* alone: a regression task yields a bare scalar, never a pair; a binary or
\* multiclass task yields a pair of a class in 0..output_dimension-1 and a
\* probability between 0 and 1 (0..100 percent).
C14_PredictionShape ==
    \A th \in Threads :
        thread[th].pred # NoPrediction =>
            LET info == TaskInfo(thread[th].task_name)
                pred == thread[th].pred
            IN
            /\ info.kind = "regression" =>
                  /\ pred.kind = "scalar"
                  /\ pred.value = thread[th].preds[1]
            /\ info.kind \in {"binary", "multiclass"} =>
                  /\ pred.kind = "class"
                  /\ pred.class \in 0..(info.num_classes - 1)
                  /\ pred.probability \in 0..100

\* A multiclass prediction of the last class, and returned to the caller.
C14_Witness ==
    \E th \in Threads :
        /\ Returned(th, "predict_and_explain")
        /\ TaskInfo(thread[th].task_name).kind = "multiclass"
        /\ thread[th].pred.class = TaskInfo(thread[th].task_name).num_classes - 1

----------------------------------------------------------------------------
(* C15 *)

\* C15: the name of a heatmap file is a function of the image stem and the
\* task name: whatever calls were made, the output directory holds at most
\* one file per pair of stem and task, a later run overwriting the earlier.
C15_OneArtifactPerStemAndTask ==
    /\ \A n1, n2 \in DOMAIN cam_dir :
          (/\ Stem(cam_dir[n1].image) = Stem(cam_dir[n2].image)
           /\ cam_dir[n1].task = cam_dir[n2].task) => n1 = n2
    /\ \A n \in DOMAIN cam_dir : n = SavePath(cam_dir[n].image, cam_dir[n].task)

\* The heatmap of a task was written for one image and then overwritten by
\* the run on another image of the same stem.
C15_Witness ==
    \E th \in Threads :
        /\ Returned(th, "run_full_profile")
        /\ thread[th].kept.img_path \notin {"", thread[th].img_path}
        /\ \E t \in Keys(thread[th].results) \cap Keys(thread[th].kept.results) :
              cam_dir[SavePath(thread[th].img_path, t)].image = thread[th].img_path

----------------------------------------------------------------------------
(* C16 *)

\* A failure that need not happen again on the same inputs.
Transient(log) ==
    \E i \in 1..Len(log) : log[i].exc \in {BackboneError, CamError}

\* C16: two runs of run_full_profile on the same image with the same
\* checkpoints yield identical predictions, whether a model was loaded in the
\* run (a miss) or taken from the cache (a hit).
C16_RerunSamePredictions ==
    \A th \in Threads :
        (/\ Returned(th, "run_full_profile")
         /\ thread[th].kept.img_path = thread[th].img_path) =>
            LET f == thread[th] IN
            /\ \A i \in 1..Len(f.results), j \in 1..Len(f.kept.results) :
                  f.results[i].task = f.kept.results[j].task =>
                      f.results[i].prediction = f.kept.results[j].prediction
            /\ (~Transient(f.log) /\ ~Transient(f.kept.log)) =>
                  f.results = f.kept.results

\* The second run took from the cache a model the first run had loaded.
C16_Witness ==
    \E th \in Threads :
        /\ Returned(th, "run_full_profile")
        /\ thread[th].kept.img_path = thread[th].img_path
        /\ \E t \in Keys(thread[th].results) \cap Keys(thread[th].kept.results) :
              /\ t \notin DOMAIN thread[th].kept.cache0
              /\ t \in DOMAIN thread[th].cache0

----------------------------------------------------------------------------
(* C20 *)

\* C20: the saliency target of the heatmap is the arg-max class of the
\* outputs for a binary or multiclass task, which is the predicted class, and
\* output 0 for a regression task.
C20_SaliencyTarget ==
    \A th \in Threads :
        Returned(th, "predict_and_explain") =>
            LET f == thread[th]
                info == TaskInfo(f.task_name)
                figure == cam_dir[f.map_path]
            IN
            /\ info.kind = "regression" => figure.target = 0
            /\ info.kind \in {"binary", "multiclass"} =>
                  /\ figure.target = ArgMax(f.preds)
                  /\ figure.target = f.pred.class

\* The heatmap of a binary task whose second class won.
C20_Witness ==
    \E th \in Threads :
        /\ Returned(th, "predict_and_explain")
        /\ TaskInfo(thread[th].task_name).kind = "binary"
        /\ cam_dir[thread[th].map_path].target = 1

----------------------------------------------------------------------------
(* C19 *)

\* The steps of one task attempt, in the order of the code: load, predict,
\* explain.
Rank(pc) ==
    CASE pc = "load_check"  -> 1
      [] pc = "load_build"  -> 2
      [] pc = "load_exists" -> 3
      [] pc = "load_read"   -> 4
      [] pc = "load_cache"  -> 5
      [] pc = "predict"     -> 6
      [] pc = "decode"      -> 7
      [] pc = "explain"     -> 8
      [] OTHER              -> 0

\* C19: run_full_profile attempts each task of the registry exactly once, in
\* registry order, each attempt going forward through load, predict and
\* explain; a failed step is never tried again, and the call ends after one
\* attempt per registry entry, at most ten.
C19_Step(th) ==
    LET f == thread[th]
        g == thread'[th]
    IN
    /\ (f.op # "run_full_profile" /\ g.op = "run_full_profile") =>
          /\ g.idx = 1
          /\ g.task_name = Registry[1].name
          /\ g.pc = "load_check"
    /\ (f.op = "run_full_profile" /\ g.op = "run_full_profile" /\ g # f) =>
          \/ /\ g.idx = f.idx
             /\ g.task_name = f.task_name
             /\ g.pc # "done"
             /\ Rank(g.pc) > Rank(f.pc)
             /\ g.results = f.results /\ g.log = f.log
          \/ /\ f.idx < Len(Registry)
             /\ g.idx = f.idx + 1
             /\ g.task_name = Registry[g.idx].name
             /\ g.pc = "load_check"
             /\ Len(g.results) + Len(g.log) = f.idx
          \/ /\ f.idx = Len(Registry)
             /\ Len(Registry) <= 10
             /\ g.idx = f.idx
             /\ g.pc = "done"
             /\ Len(g.results) + Len(g.log) = Len(Registry)

C19_EachTaskOnceInOrder == [][\A th \in Threads : C19_Step(th)]_vars

\* A profile that returned after a task failed and a later one succeeded.
C19_Witness ==
    \E th \in Threads :
        /\ Returned(th, "run_full_profile")
        /\ thread[th].idx = Len(Registry)
        /\ Registry[1].name \in Logged(thread[th].log)
        /\ Registry[Len(Registry)].name \in Keys(thread[th].results)

----------------------------------------------------------------------------
(* C22 *)

\* C22: in every state the keys of the model cache and the keys of every
\* result mapping are names of the registry, so the cache never holds more
\* than ten entries.
C22_KeysAreRegistryNames ==
    /\ DOMAIN models_cache \subseteq TaskNames
    /\ Cardinality(DOMAIN models_cache) <= 10
    /\ \A th \in Threads :
          /\ Keys(thread[th].results) \subseteq TaskNames
          /\ Keys(thread[th].kept.results) \subseteq TaskNames

\* The cache is full and a call with a name outside the registry has ended.
C22_Witness ==
    /\ DOMAIN models_cache = TaskNames
    /\ \E th \in Threads :
          /\ thread[th].pc = "done"
          /\ thread[th].task_name = UnknownTask

----------------------------------------------------------------------------
(* C27 *)

\* C27: a task is reported as skipped for missing model weights only when its
\* checkpoint file is absent; a missing or unreadable image is never reported
\* as missing weights.
C27_SkippedMeansNoCheckpoint ==
    \A th \in Threads :
        thread[th].op = "run_full_profile" =>
            \A i \in 1..Len(thread[th].log) :
                thread[th].log[i].line = "skipping" =>
                    /\ thread[th].log[i].exc = CkptMissingError
                    /\ ckpt[thread[th].log[i].task] = "missing"

----------------------------------------------------------------------------
(* C24 *)

\* The tasks for which the log holds a failure e.
FailedWith(log, e) == {log[i].task : i \in {j \in 1..Len(log) : log[j].exc = e}}

\* C24: a failed backbone load leaves nothing cached: no partially built
\* backbone or model is kept, and a later load constructs the backbone again
\* instead of returning the failed object.
C24_FailedBackboneNotCached ==
    /\ \A t \in DOMAIN models_cache :
          /\ models_cache[t].backbone = NewBackbone(t, models_cache[t].id)
          /\ models_cache[t].weights \in {"w1", "w2"}
    /\ \A th \in Threads :
          LET f == thread[th] IN
          /\ FailedWith(f.log, BackboneError) \cap DOMAIN models_cache = {}
          /\ (f.pc = "done" /\ f.exc = BackboneError) =>
                /\ f.task_name \notin DOMAIN models_cache
                /\ f.model = NoModel
          /\ f.model # NoModel =>
                f.model.backbone = NewBackbone(f.model.task, f.model.id)
          /\ FailedWith(f.kept.log, BackboneError) \cap DOMAIN f.kept.cache0 = {}

\* The backbone failed for a task in one profile, and the next profile
\* loaded the task and returned its entry.
C24_Witness ==
    \E th \in Threads :
        /\ Returned(th, "run_full_profile")
        /\ \E t \in FailedWith(thread[th].kept.log, BackboneError) :
              /\ t \in Keys(thread[th].results)
              /\ t \in DOMAIN models_cache
              /\ t \notin DOMAIN thread[th].cache0

----------------------------------------------------------------------------
(* C28 *)

\* Once the checkpoint of a task that an earlier profile skipped is present,
\* a call does not fail for the missing checkpoint again, and what it returns
\* is a loaded model that is in the cache.
C28_Retried ==
    \A th \in Threads :
        LET f == thread[th] IN
        \A t \in FailedWith(f.kept.log, CkptMissingError) :
            ckpt[t] # "missing" =>
                /\ (Ended(th, "load_model") /\ f.task_name = t) =>
                      /\ f.exc \in {NoExc, BackboneError}
                      /\ f.exc = NoExc =>
                            /\ t \in DOMAIN models_cache
                            /\ f.model = models_cache[t]
                            /\ f.model.weights \in {"w1", "w2"}
                /\ Ended(th, "run_full_profile") =>
                      /\ t \notin FailedWith(f.log, CkptMissingError)
                      /\ t \in Keys(f.results) =>
                            /\ t \in DOMAIN models_cache
                            /\ models_cache[t].weights \in {"w1", "w2"}

\* An entry of the cache stays as it is.
C28_StaysCached ==
    \A t \in DOMAIN models_cache :
        /\ t \in DOMAIN models_cache'
        /\ models_cache'[t] = models_cache[t]

\* C28: a failed load is not remembered: after a load failed because the
\* checkpoint of the task was missing, a later load_model or run_full_profile
\* on the same engine succeeds for the task once the checkpoint is present,
\* and from then on the task stays cached.
C28_FailedLoadNotRemembered == []C28_Retried /\ [][C28_StaysCached]_vars

\* A profile skipped a task for its missing checkpoint, the checkpoint was
\* deployed, and load_model then loaded and returned the task's model.
C28_Witness ==
    \E th \in Threads :
        /\ Returned(th, "load_model")
        /\ thread[th].task_name \in FailedWith(thread[th].kept.log, CkptMissingError)
        /\ thread[th].task_name \notin DOMAIN thread[th].cache0
        /\ thread[th].model = models_cache[thread[th].task_name]

----------------------------------------------------------------------------
(* C23 *)

\* C23: every model in the cache has a final linear layer whose output size
\* is the output dimension of its task in the registry; a checkpoint whose
\* head has another size is rejected by the load and never cached.
C23_HeadSizeIsTaskSize ==
    /\ \A t \in DOMAIN models_cache :
          /\ models_cache[t].num_classes = TaskInfo(t).num_classes
          /\ models_cache[t].weights # OtherHead
          /\ Len(Forward(models_cache[t])) = TaskInfo(t).num_classes
    /\ \A th \in Threads :
          LET f == thread[th] IN
          /\ Len(f.preds) \in {0, TaskInfo(f.task_name).num_classes}
          /\ (/\ Ended(th, "load_model")
              /\ ckpt[f.task_name] = OtherHead
              /\ f.task_name \notin DOMAIN f.cache0) =>
                 /\ f.exc \in {CkptLoadError, BackboneError}
                 /\ f.task_name \notin DOMAIN models_cache

\* load_model rejected a checkpoint of another head size; the model of
\* another task is in the cache.
C23_Witness ==
    \E th \in Threads :
        /\ Ended(th, "load_model")
        /\ ckpt[thread[th].task_name] = OtherHead
        /\ thread[th].exc = CkptLoadError
        /\ thread[th].reads = 1
        /\ DOMAIN models_cache = TaskNames \ {thread[th].task_name}

----------------------------------------------------------------------------
(* C29 *)

\* C29: get_ocular_api creates at most one OcularInferenceAPI per process:
\* every call after a successful construction returns that one instance, also
\* when the first calls arrive at the same time; a failed construction
\* returns None, stores nothing, and the next call tries again.
C29_OneEnginePerProcess ==
    /\ apis_made <= 1
    /\ api_instance \in {0, 1}
    /\ \A th \in Threads :
          request[th].ocular_api \in {0, api_instance}

----------------------------------------------------------------------------
(* C25 *)

\* Where a request is between the writing and the removal of its file.
HoldsTemp == {"send_message", "get_api", "api_construct", "api_return",
              "got_api", "reply", "unlink"}

----------------------------------------------------------------------------
(* C26 *)

\* C26: the tool analyze_retinal_scan fabricates no placeholder: its output
\* has exactly the task keys run_full_profile returned, each with the
\* engine's own class and probability or its scalar rounded to two decimals,
\* and a task that was skipped has no key.
C26_ToolOutputIsEngineOutput ==
    \A th \in Threads :
        request[th].tool_ran =>
            LET results == request[th].results
                formatted == request[th].formatted
            IN
            /\ Len(formatted) = Len(results)
            /\ \A i \in 1..Len(results) :
                  LET pred == results[i].prediction
                      out == formatted[i]
                  IN
                  /\ out.task = results[i].task
                  /\ pred.kind = "class" =>
                        /\ out.prediction = pred.class
                        /\ out.probability = <<pred.probability>>
                  /\ pred.kind = "scalar" =>
                        /\ out.probability = <<>>
                        /\ 10 * out.prediction - 5 <= pred.value
                        /\ pred.value <= 10 * out.prediction + 5
                  /\ out.gradcam_heatmap_url[2] = results[i].attention_map

\* The tool formatted a mapping that lacks the first task of the registry
\* and holds a scalar or a class for the last one.
C26_Witness ==
    \E th \in Threads :
        /\ request[th].tool_ran
        /\ Len(request[th].formatted) >= 1
        /\ Registry[1].name \notin Keys(request[th].results)
        /\ request[th].formatted[1].task = Registry[Len(Registry)].name

----------------------------------------------------------------------------
(* C30 *)

\* C30: the outcomes respond returns for a request are the results of the
\* request's own analyze_retinal_scan call, or None when it ran no analysis:
\* with requests handled at the same time no request gets, or clears, what
\* another request stored in _LAST_TOOL_RESULTS.
C30_OutcomesAreOwn ==
    \A th \in Threads :
        (request[th].agent = "oculomics" /\ request[th].pc \in {"clear", "return", "returned"}) =>
            request[th].outcomes =
                IF request[th].tool_ran THEN request[th].formatted ELSE <<>>

----------------------------------------------------------------------------
(* C21 *)

\* C21: run_full_profile takes a deadline from its caller: once the deadline
\* has passed in the middle of a profile it starts no further task and
\* returns the partial mapping of the tasks it has completed.
C21_NoTaskAfterDeadline ==
    [][\A th \in Threads :
          (thread[th].op = "run_full_profile" /\ thread[th].expired) =>
              \/ thread'[th].op # "run_full_profile"
              \/ thread'[th].idx = thread[th].idx]_vars

====
